---- MODULE Spec2Model ----
(***************************************************************************)
(* A model of the Companion client runtime (src/src/libraries/companion.py)*)
(* as a state machine: the supervisor loop run(), the send and receive     *)
(* loops, call() with its timeout, the variable cache, the handler         *)
(* registries and _dispatch with its handler tasks.                        *)
(*                                                                         *)
(* Every asyncio task is a process; one action is the code a task runs     *)
(* between two suspension points (an await that yields to the event loop). *)
(* Python strings that the code inspects (variable names, prefixes, the    *)
(* connection argument of on()) are sequences of one-character strings.    *)
(***************************************************************************)
EXTENDS Integers, Sequences, FiniteSets, TLC

\* ------------------------------------------------------------------------
\* Bounds of the model
\* ------------------------------------------------------------------------
\* call() invocations that allocate a request id
MaxCalls == 2
\* sockets that websockets.connect() opens successfully
MaxConnections == 2
\* connection attempts that end (in one of the except branches of run())
MaxAttempts == 3
\* messages the receive loops read over the whole run
MaxRecv == 3
\* registrations made through on / on_prefix / on_regex
MaxRegs == 3
\* call() invocations rejected because no socket is set
MaxRejected == 1
\* messages read where the server only answers requests
MaxResponses == 2
\* sockets opened where the server only answers requests
MaxCallSockets == 1
\* variables_changed events read where every registration is tried
MaxChanges == 2

\* ------------------------------------------------------------------------
\* Program constants
\* ------------------------------------------------------------------------
\* itertools.count(10): the first request id call() allocates
FirstRequestId == 10
\* the id of the initial "query.variables" request and of its response
SnapshotId == 1
\* reconnect_delay = 1 at the start of run()
InitialDelay == 1
\* asyncio.sleep(min(reconnect_delay, 5))
SleepCap == 5
\* reconnect_delay = min(reconnect_delay + 1, 10)
DelayCap == 10

Min(a, b) == IF a <= b THEN a ELSE b

\* Python's None, where the model needs it as a value of a variable
None == "None"

\* ------------------------------------------------------------------------
\* Strings the code takes apart
\* ------------------------------------------------------------------------
vmix == <<"v", "m", "i", "x">>
atem == <<"a", "t", "e", "m">>
\* "_all": the key on() files all-variables handlers under
all_key == <<"_", "a", "l", "l">>
input_ == <<"i", "n", "p", "u", "t", "_">>
_remaining == <<"_", "r", "e", "m", "a", "i", "n", "i", "n", "g">>
_playing == <<"_", "p", "l", "a", "y", "i", "n", "g">>
input_1_ == input_ \o <<"1", "_">>
input_1_remaining == input_ \o <<"1">> \o _remaining
input_2_playing == input_ \o <<"2">> \o _playing
input_12_playing_now == input_ \o <<"1", "2">> \o _playing \o <<"_", "n", "o", "w">>
x_input_2_playing == <<"x", "_">> \o input_2_playing
\* "vmix:input_1_remaining", the one-argument form of on()
vmix_colon_input_1_remaining == vmix \o <<":">> \o input_1_remaining
\* the pattern strings handed to on_regex
pat_anchored == "^input_\\d+_playing$"
pat_open == "input_\\d+_playing"

Digits == {"0", "1", "2", "3", "4", "5", "6", "7", "8", "9"}

\* str.startswith(prefix)
StartsWith(var, prefix) ==
    /\ Len(prefix) <= Len(var)
    /\ SubSeq(var, 1, Len(prefix)) = prefix

\* the position of the first ":" of s, or 0: what `":" in s` and split(":", 1) look for
RECURSIVE FindColon(_, _)
FindColon(s, i) ==
    IF i > Len(s) THEN 0
    ELSE IF s[i] = ":" THEN i
    ELSE FindColon(s, i + 1)

\* ------------------------------------------------------------------------
\* Compiled regular expressions: a sequence of atoms
\*   bol  ^      eol  $      lit  one literal character      digits  \d+
\* ------------------------------------------------------------------------
Lit(c) == [t |-> "lit", c |-> c]
Bol == [t |-> "bol", c |-> ""]
Eol == [t |-> "eol", c |-> ""]
DigitsPlus == [t |-> "digits", c |-> ""]

Lits(s) == [i \in 1..Len(s) |-> Lit(s[i])]

\* re.compile(pat_anchored)
re_anchored == <<Bol>> \o Lits(input_) \o <<DigitsPlus>> \o Lits(_playing) \o <<Eol>>
\* re.compile(pat_open)
re_open == Lits(input_) \o <<DigitsPlus>> \o Lits(_playing)

\* re.compile(pattern), for the patterns the model registers
Compile(pattern) == IF pattern = pat_anchored THEN re_anchored ELSE re_open

\* the backtracking matcher: atoms re[i..] against s from position j
RECURSIVE MatchAt(_, _, _, _)
MatchAt(re, i, s, j) ==
    IF i > Len(re) THEN TRUE
    ELSE LET a == re[i] IN
         CASE a.t = "bol" -> j = 1 /\ MatchAt(re, i + 1, s, j)
           [] a.t = "eol" -> j = Len(s) + 1 /\ MatchAt(re, i + 1, s, j)
           [] a.t = "lit" -> j <= Len(s) /\ s[j] = a.c /\ MatchAt(re, i + 1, s, j + 1)
           [] a.t = "digits" ->
                \E k \in (j + 1)..(Len(s) + 1) :
                    /\ \A x \in j..(k - 1) : s[x] \in Digits
                    /\ MatchAt(re, i + 1, s, k)

\* regex.search(var): a match starting at any position (not what the code calls)
RegexSearch(re, var) == \E j \in 1..(Len(var) + 1) : MatchAt(re, 1, var, j)

\* regex.match(var): a match starting at the first character, ending anywhere
RegexMatch(re, var) == MatchAt(re, 1, var, 1)

\* ------------------------------------------------------------------------
\* JSON values and wire messages (what json.loads returns)
\* ------------------------------------------------------------------------
\* a dict is a sequence of <<key, value>> pairs in document order
JNull == [isDict |-> FALSE, val |-> None, dict |-> <<>>]
JStr(v) == [isDict |-> FALSE, val |-> v, dict |-> <<>>]
JDict(d) == [isDict |-> TRUE, val |-> None, dict |-> d]

\* raw: "object" (a JSON object), "not_json" (json.loads raises),
\* "not_object" (json.loads returns a list, a string, a number or null)
Message(raw, keys, id, result, error, event, payload) ==
    [raw |-> raw, keys |-> keys, id |-> id, result |-> result, error |-> error,
     event |-> event, payload |-> payload]

ResultResponse(id, v) == Message("object", {"id", "result"}, id, JStr(v), JNull, "", <<>>)
ErrorResponse(id, e) == Message("object", {"id", "error"}, id, JNull, JStr(e), "", <<>>)
EmptyResponse(id) == Message("object", {"id"}, id, JNull, JNull, "", <<>>)
SnapshotResponse(d) == Message("object", {"id", "result"}, SnapshotId, JDict(d), JNull, "", <<>>)
Event(kind, payload) == Message("object", {"event", "payload"}, 0, JNull, JNull, kind, payload)
VariablesChanged(payload) == Event("variables_changed", payload)
Malformed(raw) == Message(raw, {}, 0, JNull, JNull, "", <<>>)

\* ------------------------------------------------------------------------
\* State
\* ------------------------------------------------------------------------
VARIABLES
    \* run(): where the supervisor is, and its local reconnect_delay
    pc, reconnect_delay,
    \* self._ws: 0 is None, n >= 1 is the n-th socket opened
    ws,
    \* sockets opened so far, and the one that is open (0: none)
    nsock, sock_open,
    \* the _send_loop task of each socket: [st, msg, target]
    sender,
    \* the _recv_loop task of the current attempt: [sock, st]
    receiver,
    \* self._id_counter (the next id), self._pending (id -> future), the futures,
    \* the suspended call() coroutines, self._send_queue (message ids)
    id_counter, pending, futs, callers, send_queue,
    \* for each message in self._send_queue, the number of the put that queued it
    send_queue_no,
    \* self.variables: connection -> (variable -> value)
    variables,
    \* self._handlers, self._wildcards, self._regex
    handlers, wildcards, regex,
    \* the tasks _dispatch created, in creation order
    htasks,
    \* history: the registration calls made, the messages the receive loops read,
    \* the messages written to a socket, the attempts that ended with their sleep,
    \* the call() invocations that found no socket
    registered, rxlog, wire, runlog, rejected

vars == <<pc, reconnect_delay, ws, nsock, sock_open, sender, receiver, id_counter,
          pending, futs, callers, send_queue, send_queue_no, variables, handlers,
          wildcards, regex, htasks, registered, rxlog, wire, runlog, rejected>>

run_vars == <<pc, reconnect_delay, ws, nsock, sock_open, runlog>>
call_vars == <<id_counter, pending, futs, callers, send_queue, send_queue_no, rejected>>
registry_vars == <<handlers, wildcards, regex, registered>>

EmptyDict == [x \in {} |-> None]

\* dict.update(pairs)
RECURSIVE DictUpdate(_, _)
DictUpdate(d, pairs) ==
    IF pairs = <<>> THEN d
    ELSE LET k == pairs[1][1]
             v == pairs[1][2]
         IN DictUpdate([x \in (DOMAIN d) \cup {k} |-> IF x = k THEN v ELSE d[x]],
                       Tail(pairs))

\* dict.get(key, default)
DictGet(d, key, default) == IF key \in DOMAIN d THEN d[key] ELSE default

\* dict.pop(key, None), as the dict it leaves
DictPop(d, key) == [x \in (DOMAIN d) \ {key} |-> d[x]]

Init ==
    /\ pc = "connect"
    /\ reconnect_delay = InitialDelay
    /\ ws = 0
    /\ nsock = 0
    /\ sock_open = 0
    /\ sender = <<>>
    /\ receiver = [sock |-> 0, st |-> "none"]
    /\ id_counter = FirstRequestId
    /\ pending = EmptyDict
    /\ futs = EmptyDict
    /\ callers = EmptyDict
    /\ send_queue = <<>>
    /\ send_queue_no = <<>>
    /\ variables = EmptyDict
    /\ handlers = EmptyDict
    /\ wildcards = EmptyDict
    /\ regex = EmptyDict
    /\ htasks = <<>>
    /\ registered = <<>>
    /\ rxlog = <<>>
    /\ wire = <<>>
    /\ runlog = <<>>
    /\ rejected = 0

\* ------------------------------------------------------------------------
\* Decorators: on, on_prefix, on_regex
\* ------------------------------------------------------------------------
\* the second argument of on(connection, variable=None)
NoVar == [none |-> TRUE, s |-> <<>>]
Var(s) == [none |-> FALSE, s |-> s]

\* defaultdict access: the list filed under handlers[connection][key]
HandlersFor(connection, key) ==
    IF connection \in DOMAIN handlers
    THEN DictGet(handlers[connection], key, <<>>)
    ELSE <<>>

\* on(): the (connection, key) the decorator files func under
\*   if variable is None and ":" in connection: connection, variable = split(":", 1)
\*   key = variable or "_all"
OnKey(connection, variable) ==
    LET colon == FindColon(connection, 1)
        split == variable.none /\ colon > 0
        c == IF split THEN SubSeq(connection, 1, colon - 1) ELSE connection
        v == IF split THEN SubSeq(connection, colon + 1, Len(connection)) ELSE variable.s
    IN <<c, IF v = <<>> THEN all_key ELSE v>>

on(connection, variable, func) ==
    LET k == OnKey(connection, variable)
        inner == DictGet(handlers, k[1], EmptyDict)
        list == DictGet(inner, k[2], <<>>)
    IN /\ Len(registered) < MaxRegs
       /\ handlers' = DictUpdate(handlers,
              << <<k[1], DictUpdate(inner, << <<k[2], Append(list, func)>> >>)>> >>)
       /\ registered' = Append(registered,
              [api |-> "on", connection |-> connection, variable |-> variable,
               prefix |-> <<>>, pattern |-> "", func |-> func])
       /\ UNCHANGED <<wildcards, regex>>
       /\ UNCHANGED <<run_vars, call_vars, sender, receiver, variables, htasks, rxlog, wire>>

on_prefix(connection, prefix, func) ==
    /\ Len(registered) < MaxRegs
    /\ wildcards' = DictUpdate(wildcards,
           << <<connection, Append(DictGet(wildcards, connection, <<>>), <<prefix, func>>)>> >>)
    /\ registered' = Append(registered,
           [api |-> "on_prefix", connection |-> connection, variable |-> NoVar,
            prefix |-> prefix, pattern |-> "", func |-> func])
    /\ UNCHANGED <<handlers, regex>>
    /\ UNCHANGED <<run_vars, call_vars, sender, receiver, variables, htasks, rxlog, wire>>

on_regex(connection, pattern, func) ==
    /\ Len(registered) < MaxRegs
    /\ regex' = DictUpdate(regex,
           << <<connection, Append(DictGet(regex, connection, <<>>), <<Compile(pattern), func>>)>> >>)
    /\ registered' = Append(registered,
           [api |-> "on_regex", connection |-> connection, variable |-> NoVar,
            prefix |-> <<>>, pattern |-> pattern, func |-> func])
    /\ UNCHANGED <<handlers, wildcards>>
    /\ UNCHANGED <<run_vars, call_vars, sender, receiver, variables, htasks, rxlog, wire>>

\* ------------------------------------------------------------------------
\* Public API: get_variable
\* ------------------------------------------------------------------------
\* self.variables.get(connection, {}).get(var, default)
get_variable(cache, connection, var, default) ==
    DictGet(DictGet(cache, connection, EmptyDict), var, default)

\* ------------------------------------------------------------------------
\* Variable cache
\* ------------------------------------------------------------------------
\* a replacing variant: the update becomes the connection's whole mapping
ApplyUpdate_Replace(cache, conn, updates) ==
    DictUpdate(cache, << <<conn, DictUpdate(EmptyDict, updates)>> >>)

\* self.variables.setdefault(conn, {}).update(updates)
ApplyUpdate(cache, conn, updates) ==
    DictUpdate(cache, << <<conn, DictUpdate(DictGet(cache, conn, EmptyDict), updates)>> >>)

\* self.variables.update(result): each connection of the snapshot replaces its mapping
ApplySnapshot(cache, result) ==
    DictUpdate(cache,
        [i \in 1..Len(result) |-> <<result[i][1], DictUpdate(EmptyDict, result[i][2])>>])

\* ------------------------------------------------------------------------
\* Internal dispatch
\* ------------------------------------------------------------------------
\* asyncio.create_task(self._safe_handler_call(h, arg)): the task's handler and
\* argument; cls, conn and var say which loop of _dispatch created it
HandlerTask(h, cls, conn, var, value, updates) ==
    [handler |-> h, cls |-> cls, conn |-> conn, var |-> var, value |-> value,
     updates |-> updates]

\* the tasks _dispatch creates for one (var, value) of updates
DispatchVar(connection, var, value) ==
    LET exact == HandlersFor(connection, var)
        pre == SelectSeq(DictGet(wildcards, connection, <<>>),
                         LAMBDA e : StartsWith(var, e[1]))
        rex == SelectSeq(DictGet(regex, connection, <<>>),
                         LAMBDA e : RegexMatch(e[1], var))
    IN [i \in 1..Len(exact) |-> HandlerTask(exact[i], "exact", connection, var, value, <<>>)]
       \o [i \in 1..Len(pre) |-> HandlerTask(pre[i][2], "prefix", connection, var, value, <<>>)]
       \o [i \in 1..Len(rex) |-> HandlerTask(rex[i][2], "regex", connection, var, value, <<>>)]

RECURSIVE DispatchVars(_, _, _)
DispatchVars(connection, updates, i) ==
    IF i > Len(updates) THEN <<>>
    ELSE DispatchVar(connection, updates[i][1], updates[i][2])
         \o DispatchVars(connection, updates, i + 1)

\* _dispatch(connection, updates): the tasks it creates, in creation order
Dispatch(connection, updates) ==
    LET alls == HandlersFor(connection, all_key)
    IN [i \in 1..Len(alls) |-> HandlerTask(alls[i], "all", connection, <<>>, None, updates)]
       \o DispatchVars(connection, updates, 1)

\* a failure-propagating variant: a raising handler takes the still scheduled
\* tasks of its batch down with it
_safe_handler_call_cancel_siblings(tasks, i, raises) ==
    [j \in 1..Len(tasks) |->
        IF j = i THEN [tasks[j] EXCEPT !.st = IF raises THEN "error_logged" ELSE "done"]
        ELSE IF raises /\ tasks[j].msg = tasks[i].msg /\ tasks[j].st = "scheduled"
        THEN [tasks[j] EXCEPT !.st = "cancelled"]
        ELSE tasks[j]]

\* _safe_handler_call(handler, arg), run as task i: the handler is invoked, and an
\* exception it raises is caught and printed
_safe_handler_call(tasks, i, raises) ==
    [tasks EXCEPT ![i].st = IF raises THEN "error_logged" ELSE "done"]

\* the event loop starts the handler tasks in the order they were created
HandlerRun(i, raises) ==
    /\ i \in 1..Len(htasks)
    /\ htasks[i].st = "scheduled"
    /\ \A j \in 1..(i - 1) : htasks[j].st # "scheduled"
    /\ htasks' = _safe_handler_call(htasks, i, raises)
    /\ UNCHANGED <<run_vars, call_vars, registry_vars, sender, receiver, variables,
                   rxlog, wire>>

\* ------------------------------------------------------------------------
\* Communication loops: _recv_loop
\* ------------------------------------------------------------------------
\* a task created while processing message n, read from the socket of the receive
\* loop, and what it can read from the cache at the moment it is created: the
\* cached value of every variable of its batch
Schedule(tasks, n, cache, updates) ==
    [i \in 1..Len(tasks) |->
        tasks[i] @@ [msg |-> n, sock |-> receiver.sock, st |-> "scheduled",
                     batch |-> updates,
                     seen |-> [k \in 1..Len(updates) |->
                                 get_variable(cache, tasks[i].conn, updates[k][1], None)]]]

\* a dispatch-first variant: the handlers are scheduled, then the cache is updated
VariablesChangedFor_DispatchFirst(cache, conn, updates, n) ==
    [cache |-> ApplyUpdate(cache, conn, updates),
     tasks |-> Schedule(Dispatch(conn, updates), n, cache, updates)]

\* one (conn, updates) of a variables_changed payload:
\*   self.variables.setdefault(conn, {}).update(updates)
\*   await self._dispatch(conn, updates)
VariablesChangedFor(cache, conn, updates, n) ==
    LET updated == ApplyUpdate(cache, conn, updates)
    IN [cache |-> updated,
        tasks |-> Schedule(Dispatch(conn, updates), n, updated, updates)]

\* for conn, updates in payload.items(): ...
RECURSIVE VariablesChangedLoop(_, _, _)
VariablesChangedLoop(acc, payload, n) ==
    IF payload = <<>> THEN acc
    ELSE LET one == VariablesChangedFor(acc.cache, payload[1][1], payload[1][2], n)
         IN VariablesChangedLoop([cache |-> one.cache, tasks |-> acc.tasks \o one.tasks],
                                 Tail(payload), n)

\* a variant without the event-kind test: any message with a payload is a change
RecvBranch_AnyPayload(data, p) ==
    IF "id" \in data.keys /\ data.id \in DOMAIN p THEN "response"
    ELSE IF "id" \in data.keys /\ data.id = SnapshotId /\ "result" \in data.keys
    THEN "snapshot"
    ELSE IF "payload" \in data.keys THEN "variables_changed"
    ELSE "unknown"

\* the branch of _recv_loop's if-chain a parsed message takes
RecvBranch(data, p) ==
    IF "id" \in data.keys /\ data.id \in DOMAIN p THEN "response"
    ELSE IF "id" \in data.keys /\ data.id = SnapshotId /\ "result" \in data.keys
    THEN "snapshot"
    ELSE IF "event" \in data.keys /\ data.event = "variables_changed"
    THEN "variables_changed"
    ELSE IF "event" \in data.keys /\ data.event = "updateButtonState"
    THEN "updateButtonState"
    ELSE "unknown"

\* a first-come variant: the response goes to the oldest outstanding call
PendingFuture_Oldest(p, id) ==
    p[CHOOSE k \in DOMAIN p : \A other \in DOMAIN p : k <= other]

\* self._pending.pop(data["id"]): the future filed under the response's id
PendingFuture(p, id) == p[id]

\* fut.set_result / fut.set_exception for a response
Resolved(data) ==
    IF "result" \in data.keys THEN [st |-> "result", exc |-> "", val |-> data.result]
    ELSE IF "error" \in data.keys
    THEN [st |-> "exception", exc |-> "RemoteError", val |-> data.error]
    ELSE [st |-> "result", exc |-> "", val |-> JNull]

\* one iteration of `async for raw in self._ws` on the message data
RecvMessage(data) ==
    LET n == Len(rxlog) + 1
        branch == RecvBranch(data, pending)
    IN
    /\ receiver.st = "running"
    /\ sock_open = receiver.sock
    /\ Len(rxlog) < MaxRecv
    /\ rxlog' = Append(rxlog, data)
    /\ IF data.raw # "object"
       THEN \* json.loads raises, or data.get is no attribute of the value
            /\ receiver' = [receiver EXCEPT !.st = "crashed"]
            /\ UNCHANGED <<pending, futs, variables, htasks>>
       ELSE CASE branch = "response" ->
                   LET f == PendingFuture(pending, data.id)
                   IN /\ pending' = DictPop(pending, data.id)
                      /\ IF futs[f].st = "pending"
                         THEN /\ futs' = [futs EXCEPT ![f] = Resolved(data)]
                              /\ UNCHANGED receiver
                         ELSE \* set_result on a done future: InvalidStateError
                              /\ receiver' = [receiver EXCEPT !.st = "crashed"]
                              /\ UNCHANGED futs
                      /\ UNCHANGED <<variables, htasks>>
              [] branch = "snapshot" ->
                   /\ variables' = IF data.result.isDict
                                   THEN ApplySnapshot(variables, data.result.dict)
                                   ELSE variables
                   /\ UNCHANGED <<pending, futs, receiver, htasks>>
              [] branch = "variables_changed" ->
                   LET acc == VariablesChangedLoop([cache |-> variables, tasks |-> <<>>],
                                                   data.payload, n)
                   IN /\ variables' = acc.cache
                      /\ htasks' = htasks \o acc.tasks
                      /\ UNCHANGED <<pending, futs, receiver>>
              [] OTHER ->
                   \* updateButtonState and unknown events are printed
                   UNCHANGED <<pending, futs, receiver, variables, htasks>>
    /\ UNCHANGED <<run_vars, registry_vars, sender, id_counter, callers, send_queue,
                   send_queue_no, rejected, wire>>

\* the socket closes: `async for` ends (a clean close) or raises
\* ConnectionClosedError (any other close)
RecvClosed(clean) ==
    /\ receiver.st = "running"
    /\ sock_open = receiver.sock
    /\ sock_open' = 0
    /\ receiver' = [receiver EXCEPT !.st = IF clean THEN "returned" ELSE "closed_error"]
    /\ UNCHANGED <<pc, reconnect_delay, ws, nsock, runlog, call_vars, registry_vars,
                   sender, variables, htasks, rxlog, wire>>

\* ------------------------------------------------------------------------
\* Communication loops: _send_loop
\* ------------------------------------------------------------------------
\* except Exception as e: fut = self._pending.pop(msg["id"], None)
\*                        if fut and not fut.done(): fut.set_exception(e)
SendFailed(msg) ==
    /\ pending' = DictPop(pending, msg)
    /\ futs' = IF msg \in DOMAIN pending /\ futs[pending[msg]].st = "pending"
               THEN [futs EXCEPT ![pending[msg]] =
                        [st |-> "exception", exc |-> "TransportError", val |-> JNull]]
               ELSE futs

\* the puts made on self._send_queue so far: one per connection, one per accepted call
Puts == nsock + (id_counter - FirstRequestId)

\* seq with its i-th element taken out
Without(seq, i) == SubSeq(seq, 1, i - 1) \o SubSeq(seq, i + 1, Len(seq))

\* a last-in-first-out variant of the queue
QueueGet_Newest(q) == Len(q)

\* asyncio.Queue.get(): the position of the item it returns, the oldest one
QueueGet(q) == 1

\* msg = await self._send_queue.get(); await self._ws.send(json.dumps(msg))
\* Any send loop waiting on the queue may be the one that gets the message.  A send
\* on an open socket writes the message and may suspend; a send on a closed socket,
\* or on None, raises at once and the loop goes on to its `while self._ws` test.
SenderSend(t) ==
    /\ t \in 1..Len(sender)
    /\ sender[t].st = "waiting"
    /\ send_queue # <<>>
    /\ send_queue' = Without(send_queue, QueueGet(send_queue))
    /\ send_queue_no' = Without(send_queue_no, QueueGet(send_queue))
    /\ LET msg == send_queue[QueueGet(send_queue)]
           no == send_queue_no[QueueGet(send_queue)]
       IN IF ws # 0 /\ sock_open = ws
          THEN /\ wire' = Append(wire, [sock |-> ws, id |-> msg, no |-> no])
               /\ sender' = [sender EXCEPT ![t].st = "sent"]
               /\ UNCHANGED <<pending, futs>>
          ELSE /\ SendFailed(msg)
               /\ sender' = [sender EXCEPT ![t].st = IF ws = 0 THEN "done" ELSE "waiting"]
               /\ UNCHANGED wire
    /\ UNCHANGED <<run_vars, registry_vars, receiver, id_counter, callers, rejected,
                   variables, htasks, rxlog>>

\* send() returns: `while self._ws`
SenderLoop(t) ==
    /\ t \in 1..Len(sender)
    /\ sender[t].st = "sent"
    /\ sender' = [sender EXCEPT ![t].st = IF ws = 0 THEN "done" ELSE "waiting"]
    /\ UNCHANGED <<run_vars, call_vars, registry_vars, receiver, variables, htasks,
                   rxlog, wire>>

\* ------------------------------------------------------------------------
\* Public API: call
\* ------------------------------------------------------------------------
\* a variant that tests the socket only after the message is queued
CallRejected_AfterPut(c) ==
    [id_counter |-> c.id_counter + 1,
     pending |-> c.pending,
     send_queue |-> Append(c.send_queue, c.id_counter),
     send_queue_no |-> Append(c.send_queue_no, c.puts + 1)]

\* what call() has done to the client's fields c when it raises for want of a
\* socket: the test is its first statement
CallRejected(c) ==
    [id_counter |-> c.id_counter,
     pending |-> c.pending,
     send_queue |-> c.send_queue,
     send_queue_no |-> c.send_queue_no]

\* a variant that hands the same id out again
AllocateId_Same(counter) == [id |-> counter, counter |-> counter]

\* req_id = next(self._id_counter)
AllocateId(counter) == [id |-> counter, counter |-> counter + 1]

\* if not self._ws: raise RuntimeError("WebSocket not connected yet")
CallNotConnected ==
    /\ ws = 0
    /\ rejected < MaxRejected
    /\ rejected' = rejected + 1
    /\ LET c == CallRejected([id_counter |-> id_counter, pending |-> pending,
                              send_queue |-> send_queue, send_queue_no |-> send_queue_no,
                              puts |-> Puts])
       IN /\ id_counter' = c.id_counter
          /\ pending' = c.pending
          /\ send_queue' = c.send_queue
          /\ send_queue_no' = c.send_queue_no
    /\ UNCHANGED <<run_vars, registry_vars, sender, receiver, futs, callers, variables,
                   htasks, rxlog, wire>>

\* call() up to its await of the future
Call ==
    /\ ws # 0
    /\ id_counter < FirstRequestId + MaxCalls
    /\ LET req_id == AllocateId(id_counter).id
       IN /\ id_counter' = AllocateId(id_counter).counter
          /\ futs' = DictUpdate(futs,
                 << <<req_id, [st |-> "pending", exc |-> "", val |-> JNull]>> >>)
          /\ pending' = DictUpdate(pending, << <<req_id, req_id>> >>)
          /\ send_queue' = Append(send_queue, req_id)
          /\ send_queue_no' = Append(send_queue_no, Puts + 1)
          /\ callers' = DictUpdate(callers,
                 << <<req_id, [st |-> "waiting", exc |-> "", val |-> JNull]>> >>)
    /\ UNCHANGED <<run_vars, registry_vars, sender, receiver, rejected, variables,
                   htasks, rxlog, wire>>

\* the timeout of wait_for expires while the future is not done: the future is
\* cancelled; the caller resumes in a later step
TimeoutFires(id) ==
    /\ id \in DOMAIN callers
    /\ callers[id].st = "waiting"
    /\ futs[id].st = "pending"
    /\ futs' = [futs EXCEPT ![id].st = "cancelled"]
    /\ UNCHANGED <<run_vars, registry_vars, sender, receiver, id_counter, pending,
                   callers, send_queue, send_queue_no, rejected, variables, htasks,
                   rxlog, wire>>

\* a variant that forgets the pending entry of a timed-out call
TimeoutCleanup_Keep(p, req_id) == p

\* except asyncio.TimeoutError: self._pending.pop(req_id, None)
TimeoutCleanup(p, req_id) == DictPop(p, req_id)

\* the caller resumes with the TimeoutError of wait_for: either its future was
\* cancelled by the timeout, or the timeout expired between the future getting its
\* result and the caller resuming (asyncio.timeout cancels the task then)
CallTimesOut(id) ==
    /\ id \in DOMAIN callers
    /\ callers[id].st = "waiting"
    /\ futs[id].st # "pending"
    /\ pending' = TimeoutCleanup(pending, id)
    /\ callers' = [callers EXCEPT ![id] = [st |-> "raised", exc |-> "Timeout", val |-> JNull]]
    /\ UNCHANGED <<run_vars, registry_vars, sender, receiver, id_counter, futs,
                   send_queue, send_queue_no, rejected, variables, htasks, rxlog, wire>>

\* the caller resumes with the future's result or exception
CallCompletes(id) ==
    /\ id \in DOMAIN callers
    /\ callers[id].st = "waiting"
    /\ futs[id].st \in {"result", "exception"}
    /\ callers' = [callers EXCEPT ![id] =
           [st |-> IF futs[id].st = "result" THEN "returned" ELSE "raised",
            exc |-> futs[id].exc, val |-> futs[id].val]]
    /\ UNCHANGED <<run_vars, registry_vars, sender, receiver, id_counter, pending, futs,
                   send_queue, send_queue_no, rejected, variables, htasks, rxlog, wire>>

\* ------------------------------------------------------------------------
\* Main entry: run
\* ------------------------------------------------------------------------
\* asyncio.sleep(min(reconnect_delay, 5)), entered from an except branch
Sleep(how) == [how |-> how, delay |-> Min(reconnect_delay, SleepCap)]

\* websockets.connect succeeds: self._ws = ws, both loops are created, the snapshot
\* query is queued, run() awaits gather
ConnectOk ==
    /\ pc = "connect"
    /\ nsock < MaxConnections
    /\ nsock' = nsock + 1
    /\ ws' = nsock + 1
    /\ sock_open' = nsock + 1
    /\ sender' = Append(sender, [st |-> "waiting"])
    /\ receiver' = [sock |-> nsock + 1, st |-> "running"]
    /\ send_queue' = Append(send_queue, SnapshotId)
    /\ send_queue_no' = Append(send_queue_no, Puts + 1)
    /\ pc' = "gather"
    /\ UNCHANGED <<reconnect_delay, runlog, registry_vars, id_counter, pending, futs,
                   callers, rejected, variables, htasks, rxlog, wire>>

\* websockets.connect raises: an OSError (refused, unreachable, timed out) goes to
\* the first except branch, any other exception (a failed handshake) to the second
ConnectFails(exc) ==
    /\ pc = "connect"
    /\ Len(runlog) < MaxAttempts
    /\ pc' = IF exc = "OSError" THEN "except_lost" ELSE "except_unexpected"
    /\ runlog' = Append(runlog, Sleep(exc))
    /\ UNCHANGED <<reconnect_delay, ws, nsock, sock_open, call_vars, registry_vars,
                   sender, receiver, variables, htasks, rxlog, wire>>

\* await asyncio.gather(self._sender_task, self._receiver_task), given how the
\* receive loop stands: gather raises as soon as one task has raised, and returns
\* only when both tasks have returned; the send loop of the attempt neither raises
\* nor returns while self._ws is set
GatherOutcome(receiver_st) ==
    IF receiver_st \in {"closed_error", "crashed"} THEN "raises" ELSE "pending"

\* gather re-raises the exception of the receive loop (the send loop raises none);
\* `async with` closes the socket on the way out
GatherRaises ==
    /\ pc = "gather"
    /\ GatherOutcome(receiver.st) = "raises"
    /\ Len(runlog) < MaxAttempts
    /\ sock_open' = 0
    /\ pc' = IF receiver.st = "closed_error" THEN "except_lost" ELSE "except_unexpected"
    /\ runlog' = Append(runlog, Sleep(receiver.st))
    /\ UNCHANGED <<reconnect_delay, ws, nsock, call_vars, registry_vars, sender,
                   receiver, variables, htasks, rxlog, wire>>

\* a variant whose teardown also drops the subscriptions
FinallyReset_ClearRegistry ==
    /\ pc \in {"except_lost", "except_unexpected"}
    /\ reconnect_delay' = IF pc = "except_lost"
                          THEN Min(reconnect_delay + 1, DelayCap)
                          ELSE reconnect_delay
    /\ ws' = 0
    /\ receiver' = [sock |-> 0, st |-> "none"]
    /\ pc' = "connect"
    /\ sock_open' = IF ws # 0 /\ sock_open = ws THEN 0 ELSE sock_open
    /\ handlers' = EmptyDict
    /\ wildcards' = EmptyDict
    /\ regex' = EmptyDict
    /\ UNCHANGED <<nsock, runlog, call_vars, registered, sender, variables, htasks,
                   rxlog, wire>>

\* the sleep of an except branch ends; the first branch then raises
\* reconnect_delay; finally: self._ws = None and the task references are dropped
FinallyReset ==
    /\ pc \in {"except_lost", "except_unexpected"}
    /\ reconnect_delay' = IF pc = "except_lost"
                          THEN Min(reconnect_delay + 1, DelayCap)
                          ELSE reconnect_delay
    /\ ws' = 0
    /\ receiver' = [sock |-> 0, st |-> "none"]
    /\ pc' = "connect"
    /\ sock_open' = IF ws # 0 /\ sock_open = ws THEN 0 ELSE sock_open
    /\ UNCHANGED <<nsock, runlog, call_vars, registry_vars, sender, variables, htasks,
                   rxlog, wire>>

\* ------------------------------------------------------------------------
\* The environment: what the server sends, what user code registers
\* ------------------------------------------------------------------------
Vals == {"1", "2"}

\* the request ids call() can allocate within the bound
RequestIds == FirstRequestId..(FirstRequestId + MaxCalls - 1)

\* responses to requests, answered or not, in any order
Responses ==
    {ResultResponse(id, v) : id \in RequestIds, v \in Vals}
    \cup {ErrorResponse(id, "refused") : id \in RequestIds}
    \cup {EmptyResponse(FirstRequestId)}

\* payloads of variables_changed events: connection -> (variable -> value)
remaining_changed == << <<vmix, << <<input_1_remaining, "1">> >> >> >>
playing_changed ==
    << <<vmix, << <<input_2_playing, "2">>, <<input_1_remaining, "2">> >> >> >>
others_changed ==
    << <<vmix, << <<input_12_playing_now, "1">>, <<x_input_2_playing, "2">> >> >>,
       <<atem, << <<input_1_remaining, "1">> >> >> >>
Payloads == {remaining_changed, playing_changed, others_changed}

\* the full-state responses to the query with the reserved id
Snapshots ==
    { SnapshotResponse(<< <<vmix, << <<input_2_playing, "1">> >> >> >>),
      Message("object", {"id", "result"}, SnapshotId, JStr("1"), JNull, "", <<>>) }

\* events of other kinds, with a payload shaped like a variable change
OtherEvents ==
    { Event("updateButtonState", <<>>),
      Event("connections_changed", << <<vmix, << <<input_1_remaining, "2">> >> >> >>) }

MalformedMessages == {Malformed("not_json"), Malformed("not_object")}

\* the registrations user code makes; each decorator decorates a function of its own
OnArguments ==
    { <<vmix, Var(input_1_remaining)>>, <<vmix_colon_input_1_remaining, NoVar>>,
      <<vmix, NoVar>> }
Prefixes == {input_1_, input_}
Patterns == {pat_anchored, pat_open}
NextFunc == Len(registered) + 1

\* ------------------------------------------------------------------------
\* Specifications
\* ------------------------------------------------------------------------
Connection ==
    \/ ConnectOk
    \/ \E clean \in BOOLEAN : RecvClosed(clean)
    \/ GatherRaises
    \/ FinallyReset

SendLoops ==
    \/ \E t \in 1..Len(sender) : SenderSend(t)
    \/ \E t \in 1..Len(sender) : SenderLoop(t)

Calls ==
    \/ Call
    \/ CallNotConnected
    \/ \E id \in DOMAIN callers : TimeoutFires(id)
    \/ \E id \in DOMAIN callers : CallTimesOut(id)
    \/ \E id \in DOMAIN callers : CallCompletes(id)

Registrations ==
    \/ \E a \in OnArguments : on(a[1], a[2], NextFunc)
    \/ \E pre \in Prefixes : on_prefix(vmix, pre, NextFunc)
    \/ \E pat \in Patterns : on_regex(vmix, pat, NextFunc)

HandlerTasks == \E i \in 1..Len(htasks), raises \in BOOLEAN : HandlerRun(i, raises)

AllMessages ==
    Responses \cup Snapshots \cup OtherEvents \cup MalformedMessages
    \cup {VariablesChanged(p) : p \in Payloads}

\* the whole client
Next ==
    \/ Connection
    \/ \E exc \in {"OSError", "InvalidHandshake"} : ConnectFails(exc)
    \/ SendLoops
    \/ Calls
    \/ Registrations
    \/ HandlerTasks
    \/ \E m \in AllMessages : RecvMessage(m)

Spec == Init /\ [][Next]_vars

\* requests and responses over a connection that is opened, lost and torn down
NextCalls ==
    \/ nsock < MaxCallSockets /\ ConnectOk
    \/ \E clean \in BOOLEAN : RecvClosed(clean)
    \/ GatherRaises
    \/ FinallyReset
    \/ SendLoops
    \/ Call
    \/ \E id \in DOMAIN callers : TimeoutFires(id)
    \/ \E id \in DOMAIN callers : CallTimesOut(id)
    \/ \E id \in DOMAIN callers : CallCompletes(id)
    \/ \E m \in Responses : Len(rxlog) < MaxResponses /\ RecvMessage(m)

SpecCalls == Init /\ [][NextCalls]_vars

\* the supervisor alone: attempts that fail, connections that are lost or that a
\* malformed message ends
NextBackoff ==
    \/ Connection
    \/ \E exc \in {"OSError", "InvalidHandshake"} : ConnectFails(exc)
    \/ \E m \in MalformedMessages : RecvMessage(m)

SpecBackoff == Init /\ [][NextBackoff]_vars

\* the cache and the handler tasks under every kind of pushed message, with the
\* registration main.py makes
NextCache ==
    \/ ConnectOk
    \/ Call
    \/ on_prefix(vmix, input_1_, NextFunc)
    \/ HandlerTasks
    \/ \E m \in Snapshots \cup OtherEvents \cup {VariablesChanged(p) : p \in Payloads} :
           RecvMessage(m)

SpecCache == Init /\ [][NextCache]_vars

\* every registration against variable changes
NextDispatch ==
    \/ ConnectOk
    \/ Registrations
    \/ \E i \in 1..Len(htasks) : HandlerRun(i, FALSE)
    \/ \E p \in Payloads : Len(rxlog) < MaxChanges /\ RecvMessage(VariablesChanged(p))

SpecDispatch == Init /\ [][NextDispatch]_vars

\* calls and the send loops over connections that are lost and made again
NextReconnect ==
    \/ Connection
    \/ SendLoops
    \/ Calls

SpecReconnect == Init /\ [][NextReconnect]_vars

\* subscriptions and variable changes over connections that are lost and made again
NextSubscriptions ==
    \/ Connection
    \/ on(vmix, Var(input_1_remaining), NextFunc)
    \/ on_prefix(vmix, input_1_, NextFunc)
    \/ on_regex(vmix, pat_anchored, NextFunc)
    \/ Call
    \/ \E i \in 1..Len(htasks) : HandlerRun(i, FALSE)
    \/ \E p \in Payloads : Len(rxlog) < MaxChanges /\ RecvMessage(VariablesChanged(p))

SpecSubscriptions == Init /\ [][NextSubscriptions]_vars

\* ------------------------------------------------------------------------
\* Properties
\* ------------------------------------------------------------------------
Last(seq) == seq[Len(seq)]

\* a step in which a receive loop read one more message
Received == Len(rxlog') = Len(rxlog) + 1

\* a message that is a response: an object with an id and no event
IsResponse(d) == d.raw = "object" /\ "id" \in d.keys /\ "event" \notin d.keys

\* C1: a call that completes with a result or a remote error completes with what a
\* received response carrying the call's own request id carried: the result field
\* of that response, its error field, or None for a response with neither.
C1_ResponseMatchesRequest ==
    \A id \in DOMAIN callers :
        /\ callers[id].st = "returned" =>
              \E i \in 1..Len(rxlog) :
                  /\ IsResponse(rxlog[i]) /\ rxlog[i].id = id
                  /\ IF "result" \in rxlog[i].keys
                     THEN callers[id].val = rxlog[i].result
                     ELSE "error" \notin rxlog[i].keys /\ callers[id].val = JNull
        /\ (callers[id].st = "raised" /\ callers[id].exc = "RemoteError") =>
              \E i \in 1..Len(rxlog) :
                  /\ IsResponse(rxlog[i]) /\ rxlog[i].id = id
                  /\ "result" \notin rxlog[i].keys /\ "error" \in rxlog[i].keys
                  /\ callers[id].val = rxlog[i].error

\* two calls outstanding together, answered in the reverse order with different
\* payloads, each returned its own
C1_Witness ==
    /\ Len(rxlog) = 2
    /\ rxlog[1] = ResultResponse(FirstRequestId + 1, "2")
    /\ rxlog[2] = ResultResponse(FirstRequestId, "1")
    /\ FirstRequestId + 1 \in DOMAIN callers
    /\ callers[FirstRequestId].st = "returned"
    /\ callers[FirstRequestId].val = JStr("1")
    /\ callers[FirstRequestId + 1].st = "returned"
    /\ callers[FirstRequestId + 1].val = JStr("2")

TimedOut(c, id) == c[id].st = "raised" /\ c[id].exc = "Timeout"

\* what the step left alone of the calls other than id
OthersUntouched(id) ==
    \A other \in (DOMAIN callers) \ {id} :
        /\ callers'[other] = callers[other]
        /\ futs'[other] = futs[other]
        /\ (other \in DOMAIN pending') = (other \in DOMAIN pending)

\* C2: a call whose timeout expired with no response (its future was cancelled)
\* ends only with the timeout error; a call that failed with the timeout error is
\* not in the pending table; and the steps that cancel the future and deliver the
\* timeout change nothing of any other call.
C2_TimeoutFailsOnlyItsCall ==
    [][ /\ \A id \in DOMAIN callers' :
              /\ futs'[id].st = "cancelled" =>
                    callers'[id].st = "waiting" \/ TimedOut(callers', id)
              /\ TimedOut(callers', id) => id \notin DOMAIN pending'
        /\ \A id \in DOMAIN callers :
              (\/ futs[id].st = "pending" /\ futs'[id].st = "cancelled"
               \/ ~TimedOut(callers, id) /\ TimedOut(callers', id))
              => OthersUntouched(id)
      ]_vars

\* the first call timed out with no response and left the pending table, the second
\* is still outstanding
C2_Witness ==
    /\ FirstRequestId + 1 \in DOMAIN callers
    /\ TimedOut(callers, FirstRequestId)
    /\ futs[FirstRequestId].st = "cancelled"
    /\ FirstRequestId \notin DOMAIN pending
    /\ callers[FirstRequestId + 1].st = "waiting"
    /\ futs[FirstRequestId + 1].st = "pending"
    /\ FirstRequestId + 1 \in DOMAIN pending

\* C3: reading a response whose id belongs to a call whose timeout has already
\* fired (its future is cancelled, or it has failed with the timeout error) leaves
\* the receive loop running.
C3_LateResponseDropped ==
    [][ (/\ Received
         /\ IsResponse(Last(rxlog'))
         /\ Last(rxlog').id \in DOMAIN callers
         /\ \/ futs[Last(rxlog').id].st = "cancelled"
            \/ TimedOut(callers, Last(rxlog').id))
        => receiver'.st = "running"
      ]_vars

\* ended attempts that never held a connection
FailedAttempt(e) == e.how \in {"OSError", "InvalidHandshake"}

\* the place of runlog[i] in its run of consecutive failed attempts
RECURSIVE PlaceInRun(_)
PlaceInRun(i) ==
    IF i = 1 \/ ~FailedAttempt(runlog[i - 1]) THEN 1 ELSE PlaceInRun(i - 1) + 1

\* C7: in every run of consecutive failed connection attempts the delay slept
\* after the k-th of them is min(k, cap): the delays start at 1, grow by 1 per
\* failed attempt and stay at the cap.
C7_BackoffGrowsPerFailure ==
    \A i \in 1..Len(runlog) :
        FailedAttempt(runlog[i]) => runlog[i].delay = Min(PlaceInRun(i), SleepCap)

\* C8: the delay slept after a connection that was established and then lost is
\* the initial delay, whatever preceded the connection.
C8_DelayResetsOnConnect ==
    \A i \in 1..Len(runlog) :
        ~FailedAttempt(runlog[i]) => runlog[i].delay = InitialDelay

\* a variables_changed event, a full-state response, an event of another kind
IsChange(d) ==
    d.raw = "object" /\ "id" \notin d.keys /\ "event" \in d.keys
    /\ d.event = "variables_changed"
IsSnapshot(d) ==
    d.raw = "object" /\ "id" \in d.keys /\ d.id = SnapshotId /\ "result" \in d.keys
    /\ d.result.isDict
IsOtherEvent(d) ==
    d.raw = "object" /\ "id" \notin d.keys /\ "event" \in d.keys
    /\ d.event # "variables_changed"

\* the <<connection, variable, value>> triples of a connection -> (variable -> value)
\* document
Triples(doc) ==
    UNION { { <<doc[a][1], doc[a][2][b][1], doc[a][2][b][2]>> : b \in 1..Len(doc[a][2]) }
            : a \in 1..Len(doc) }
Mentions(doc, s, v) == \E e \in Triples(doc) : e[1] = s /\ e[2] = v
HasConnection(doc, s) == \E a \in 1..Len(doc) : doc[a][1] = s

\* message j decides what get_variable(s, v) returns: an event that contains v, or a
\* snapshot that contains s
Decides(j, s, v) ==
    \/ IsChange(rxlog[j]) /\ Mentions(rxlog[j].payload, s, v)
    \/ IsSnapshot(rxlog[j]) /\ HasConnection(rxlog[j].result.dict, s)

\* message j gives (s, v) the value x (None: a snapshot of s without v)
Gives(j, s, v, x) ==
    \/ IsChange(rxlog[j]) /\ <<s, v, x>> \in Triples(rxlog[j].payload)
    \/ /\ IsSnapshot(rxlog[j]) /\ HasConnection(rxlog[j].result.dict, s)
       /\ \/ <<s, v, x>> \in Triples(rxlog[j].result.dict)
          \/ x = None /\ ~Mentions(rxlog[j].result.dict, s, v)

\* C4: variable-change events merge into the cache: get_variable(s, v) returns the
\* value of the most recently received event that contained v, whatever events
\* without v followed it (no snapshot of s having arrived since).
C4_UpdatesMerge ==
    \A i \in 1..Len(rxlog) :
        IsChange(rxlog[i]) =>
            \A e \in Triples(rxlog[i].payload) :
                (\A j \in (i + 1)..Len(rxlog) : ~Decides(j, e[1], e[2]))
                => get_variable(variables, e[1], e[2], None) = e[3]

\* an update of input_1_remaining, then an update of other variables of vmix only:
\* both are cached
C4_Witness ==
    /\ Len(rxlog) = 2
    /\ rxlog[1] = VariablesChanged(remaining_changed)
    /\ rxlog[2] = VariablesChanged(others_changed)
    /\ get_variable(variables, vmix, input_1_remaining, None) = "1"
    /\ get_variable(variables, vmix, x_input_2_playing, None) = "2"

\* what the registration r asks for, read from the call that made it
ExactFor(r, s, v) ==
    /\ r.api = "on"
    /\ \/ ~r.variable.none /\ r.connection = s /\ r.variable.s = v
       \/ r.variable.none /\ r.connection = s \o <<":">> \o v
PrefixFor(r, s, v) ==
    /\ r.api = "on_prefix"
    /\ r.connection = s
    /\ \E n \in 0..Len(v) : v = r.prefix \o SubSeq(v, Len(v) - n + 1, Len(v))
\* the language of the two patterns: input_, one or more digits, _playing, and then
\* nothing (pat_anchored) or anything (pat_open)
RegexFor(r, s, v) ==
    /\ r.api = "on_regex"
    /\ r.connection = s
    /\ \E n \in 1..Len(v), rest \in 0..Len(v) :
          /\ Len(v) = Len(input_) + n + Len(_playing) + rest
          /\ SubSeq(v, 1, Len(input_)) = input_
          /\ \A i \in (Len(input_) + 1)..(Len(input_) + n) : v[i] \in Digits
          /\ SubSeq(v, Len(input_) + n + 1, Len(input_) + n + Len(_playing)) = _playing
          /\ r.pattern = pat_anchored => rest = 0

\* the step created a task of class cls for the handler of r and the change e
Fired(r, e, cls) ==
    \E k \in (Len(htasks) + 1)..Len(htasks') :
        /\ htasks'[k].handler = r.func /\ htasks'[k].cls = cls
        /\ htasks'[k].conn = e[1] /\ htasks'[k].var = e[2] /\ htasks'[k].value = e[3]
        /\ htasks'[k].st = "scheduled"

\* C5: dispatching a change of v on s schedules the handler of a registration as an
\* exact handler iff it was registered for (s, v), as a prefix handler iff it was
\* registered for s with a literal prefix of v, as a regex handler iff it was
\* registered for s with a pattern that matches v from its start.
C5_DispatchMatches ==
    [][ (Received /\ IsChange(Last(rxlog'))) =>
          \A e \in Triples(Last(rxlog').payload), i \in 1..Len(registered) :
              /\ Fired(registered[i], e, "exact") <=> ExactFor(registered[i], e[1], e[2])
              /\ Fired(registered[i], e, "prefix") <=> PrefixFor(registered[i], e[1], e[2])
              /\ Fired(registered[i], e, "regex") <=> RegexFor(registered[i], e[1], e[2])
      ]_vars

TasksOf(n, v) == { k \in 1..Len(htasks) : htasks[k].msg = n /\ htasks[k].var = v }

\* the example: an exact handler on input_1_remaining, a prefix handler on input_1_
\* and a regex handler on ^input_\d+_playing$; the change of input_1_remaining
\* fired the first two, the change of input_2_playing only the third
C5_Witness ==
    /\ Len(registered) = 3
    /\ Len(rxlog) = 2
    /\ rxlog[1] = VariablesChanged(remaining_changed)
    /\ rxlog[2] = VariablesChanged(playing_changed)
    /\ \E a, b, c \in 1..3 :
          /\ registered[a].api = "on" /\ registered[a].variable = Var(input_1_remaining)
          /\ registered[b].api = "on_prefix" /\ registered[b].prefix = input_1_
          /\ registered[c].api = "on_regex" /\ registered[c].pattern = pat_anchored
          /\ {htasks[k].handler : k \in TasksOf(1, input_1_remaining)} = {a, b}
          /\ {htasks[k].handler : k \in TasksOf(2, input_2_playing)} = {c}

\* the step applied the change it read to the cache and scheduled every handler
\* registered for it
ChangeProcessed ==
    \A e \in Triples(Last(rxlog').payload) :
        /\ get_variable(variables', e[1], e[2], None) = e[3]
        /\ \A i \in 1..Len(registered) :
              /\ ExactFor(registered[i], e[1], e[2]) => Fired(registered[i], e, "exact")
              /\ PrefixFor(registered[i], e[1], e[2]) => Fired(registered[i], e, "prefix")
              /\ RegexFor(registered[i], e[1], e[2]) => Fired(registered[i], e, "regex")

\* C6: a handler that raises leaves every other handler task as it was (scheduled
\* ones stay scheduled), leaves the receive loop and the registries alone, and a
\* variable change read after a handler raised still schedules all its handlers.
C6_HandlerErrorIsolated ==
    [][ /\ \A i \in 1..Len(htasks) :
              (htasks[i].st = "scheduled" /\ htasks'[i].st = "error_logged") =>
                  /\ Len(htasks') = Len(htasks)
                  /\ \A j \in (1..Len(htasks)) \ {i} : htasks'[j] = htasks[j]
                  /\ receiver' = receiver
                  /\ UNCHANGED <<handlers, wildcards, regex>>
        /\ (/\ Received /\ IsChange(Last(rxlog'))
            /\ \E i \in 1..Len(htasks) : htasks[i].st = "error_logged")
           => ChangeProcessed
      ]_vars

\* two handlers of the same change: the first raised, the second was invoked; and a
\* handler of a later change was invoked too
C6_Witness ==
    \E a, b, c \in 1..Len(htasks) :
        /\ a < b /\ htasks[a].msg = htasks[b].msg /\ htasks[a].var = htasks[b].var
        /\ htasks[a].st = "error_logged" /\ htasks[b].st = "done"
        /\ htasks[c].msg > htasks[a].msg /\ htasks[c].st = "done"
        /\ receiver.st = "running"

\* C9: reading an event of a kind other than variables_changed leaves the receive
\* loop running and changes neither the cache nor the pending table (nor schedules
\* anything); a variable change read after such an event is applied to the cache
\* and its handlers are scheduled.
C9_UnknownEventIgnored ==
    [][ /\ (Received /\ IsOtherEvent(Last(rxlog'))) =>
              /\ receiver'.st = "running"
              /\ variables' = variables
              /\ pending' = pending
              /\ futs' = futs
              /\ htasks' = htasks
        /\ (/\ Received /\ IsChange(Last(rxlog'))
            /\ \E i \in 1..Len(rxlog) : IsOtherEvent(rxlog[i]))
           => (receiver'.st = "running" /\ ChangeProcessed)
      ]_vars

\* with a call pending, an unrecognized event was read and then a variable change,
\* which was cached and started a handler task
C9_Witness ==
    /\ Len(rxlog) = 2
    /\ rxlog[1].event = "connections_changed"
    /\ rxlog[2] = VariablesChanged(remaining_changed)
    /\ FirstRequestId \in DOMAIN pending
    /\ get_variable(variables, vmix, input_1_remaining, None) = "1"
    /\ \E k \in 1..Len(htasks) : htasks[k].msg = 2
    /\ receiver.st = "running"

\* C10: a handler task is created with the cache already holding its batch's
\* values, and as long as it has not started, get_variable returns for every
\* variable of its batch the batch's value or what a later message gave it.
C10_CacheUpdatedBeforeDispatch ==
    \A k \in 1..Len(htasks) :
        \A b \in 1..Len(htasks[k].batch) :
            LET v == htasks[k].batch[b][1]
                x == htasks[k].batch[b][2]
                now == get_variable(variables, htasks[k].conn, v, None)
            IN /\ htasks[k].seen[b] = x
               /\ htasks[k].st = "scheduled" =>
                     \/ now = x
                     \/ \E j \in (htasks[k].msg + 1)..Len(rxlog) :
                            Gives(j, htasks[k].conn, v, now)

\* a task not yet started whose batch replaced an older cached value, and one whose
\* batch value a later event has replaced in turn
C10_Witness ==
    /\ Len(rxlog) = 3
    /\ rxlog[1] = VariablesChanged(remaining_changed)
    /\ rxlog[2] = VariablesChanged(playing_changed)
    /\ rxlog[3] = VariablesChanged(remaining_changed)
    /\ \E k \in 1..Len(htasks) :
          /\ htasks[k].msg = 2 /\ htasks[k].st = "scheduled"
          /\ htasks[k].var = input_1_remaining /\ htasks[k].value = "2"
          /\ htasks[k].seen = <<"2", "2">>
    /\ get_variable(variables, vmix, input_1_remaining, None) = "1"

\* C11: outbound messages are written to the socket in the order they were put on
\* the queue, whatever calls, connection losses and reconnections happen: of two
\* messages that are both transmitted, the one queued first is transmitted first.
C11_TransmittedInQueueOrder ==
    \A i, j \in 1..Len(wire) : i < j => wire[i].no < wire[j].no

\* messages went out on the first and on the second socket, a request among them,
\* and a message queued in between was never transmitted
C11_Witness ==
    /\ Len(wire) >= 3
    /\ wire[1].sock = 1
    /\ wire[Len(wire)].sock = 2
    /\ \E k \in 1..Len(wire) : wire[k].id >= FirstRequestId
    /\ \E k \in 1..(Len(wire) - 1) : wire[k + 1].no > wire[k].no + 1

\* C12: call() made while self._ws is None raises at once and leaves the pending
\* table, the id counter and the outbound queue as they were; nothing but the
\* snapshot query and the requests of accepted calls is ever transmitted.
C12_CallWithoutSocketRejected ==
    [][ /\ rejected' # rejected =>
              /\ ws = 0
              /\ UNCHANGED <<pending, id_counter, send_queue, send_queue_no, futs,
                             callers, wire>>
        /\ \A k \in 1..Len(wire') :
              wire'[k].id = SnapshotId \/ wire'[k].id \in DOMAIN callers'
      ]_vars

\* a call was rejected, and a later connection has transmitted a message
C12_Witness ==
    /\ rejected = 1
    /\ nsock = 2
    /\ \E k \in 1..Len(wire) : wire[k].sock = 2

\* C13: only a registration changes the registries: no connect, disconnection,
\* reconnection, received message, call or handler run removes or changes a
\* subscription, and a variable change received on any connection schedules every
\* handler registered for it so far.
C13_SubscriptionsSurvive ==
    [][ /\ registered' = registered => UNCHANGED <<handlers, wildcards, regex>>
        /\ (Received /\ IsChange(Last(rxlog'))) => ChangeProcessed
      ]_vars

\* a handler invoked for a change read from the first socket was invoked again for
\* a change read from the second
C13_Witness ==
    \E a, b \in 1..Len(htasks) :
        /\ htasks[a].handler = htasks[b].handler
        /\ htasks[a].sock = 1 /\ htasks[a].st = "done"
        /\ htasks[b].sock = 2 /\ htasks[b].st = "done"

\* C14: once the socket of the attempt has closed and the receive loop has ended,
\* with an error or cleanly, the supervisor's gather is released, so that run()
\* leaves the connected block, tears the attempt down and connects again.
C14_ClosedSocketEndsAttempt ==
    (pc = "gather" /\ sock_open = 0 /\ receiver.st # "running")
    => GatherOutcome(receiver.st) = "raises"

LiveSenders == {t \in 1..Len(sender) : sender[t].st # "done"}

\* C15: at most one send loop and at most one receive loop is live at any moment:
\* the loops of a torn-down attempt have stopped.
C15_OneLoopOfEachKind ==
    /\ Cardinality(LiveSenders) <= 1
    /\ receiver.st = "running" => receiver.sock = ws

\* C16: after an attempt has been torn down (self._ws is None again) no call is
\* left pending: each one was failed and taken out of the pending table.
C16_TeardownFailsPending ==
    ws = 0 => \A id \in DOMAIN pending : futs[pending[id]].st # "pending"

\* a send loop took a message off the queue and its send raised
SendRaised ==
    /\ Len(send_queue') < Len(send_queue)
    /\ wire' = wire

\* C17: when the send of a dequeued message raises, the pending request of that
\* message is failed with the transport error and removed, and the send loop that
\* took the message terminates.
C17_SendFailureEndsSendLoop ==
    [][ SendRaised =>
          LET msg == send_queue[QueueGet(send_queue)]
          IN /\ msg \notin DOMAIN pending'
             /\ (msg \in DOMAIN pending /\ futs[pending[msg]].st = "pending")
                => (futs'[pending[msg]].st = "exception"
                    /\ futs'[pending[msg]].exc = "TransportError")
             /\ \E t \in 1..Len(sender) : sender[t].st = "waiting" /\ sender'[t].st = "done"
      ]_vars

\* call() got past its socket test: it queued a request
CallAccepted ==
    /\ Len(send_queue') = Len(send_queue) + 1
    /\ nsock' = nsock

\* C18: the ids call() allocates grow strictly over the life of the process,
\* reconnections included, and none is handed out twice; the pending table files a
\* future under the id of its own call only, and never under the snapshot id.
C18_RequestIdsFresh ==
    [][ /\ id_counter' >= id_counter
        /\ CallAccepted =>
              /\ id_counter' > id_counter
              /\ Last(send_queue') # SnapshotId
              /\ \A old \in DOMAIN futs : Last(send_queue') > old
              /\ Last(send_queue') \in DOMAIN pending'
        /\ SnapshotId \notin DOMAIN pending'
        /\ \A id \in DOMAIN pending' : pending'[id] = id
      ]_vars

\* a request was transmitted on the first connection and the next id on the second
C18_Witness ==
    \E i, j \in 1..Len(wire) :
        /\ wire[i].sock = 1 /\ wire[i].id = FirstRequestId
        /\ wire[j].sock = 2 /\ wire[j].id = FirstRequestId + 1

\* the registration r is an all-variables registration for the connection s
AllFor(r, s) ==
    /\ r.api = "on" /\ r.variable.none
    /\ r.connection = s

\* C19: a dispatch of n changed variables of a connection invokes every
\* all-variables handler of that connection n times, once per (variable, value).
C19_AllHandlersPerVariable ==
    [][ (Received /\ IsChange(Last(rxlog'))) =>
          \A a \in 1..Len(Last(rxlog').payload), i \in 1..Len(registered) :
              LET s == Last(rxlog').payload[a][1]
                  n == Len(Last(rxlog').payload[a][2])
                  new == { k \in (Len(htasks) + 1)..Len(htasks') :
                             htasks'[k].handler = registered[i].func
                             /\ htasks'[k].conn = s }
              IN AllFor(registered[i], s) => Cardinality(new) = n
      ]_vars

\* C20: a message that does not parse, or that parses to something other than an
\* object, is skipped: the receive loop is still running after reading it.
C20_MalformedSkipped ==
    [][ (Received /\ Last(rxlog').raw # "object") => receiver'.st = "running" ]_vars

====
